---- MODULE Spec2Model ----
(***************************************************************************)
(* Vendor dispatch and resource hydration core of SMARTerFHIR:             *)
(*   - getEMRType / getEndpointsForEmr        (src/src/Client/utils.ts)    *)
(*   - CernerClient                           (src/src/Client/utils.ts)    *)
(*   - BaseClient                             (src/unnamed/part_002)       *)
(* A client object is bound to one session handle (fhirClientDefault).     *)
(* Asynchronous methods are modelled one step per await.                   *)
(***************************************************************************)
EXTENDS Integers, Sequences, FiniteSets, TLC

VARIABLES
    clientOrToken,  \* argument of getEMRType
    clientClass,    \* class of the client object: "BaseClient" or "CernerClient"
    session,        \* fhirClientDefault: the ids its patient/encounter/user resolve to
    op,             \* method being executed, or last executed
    pc,             \* position inside the method
    arg,            \* the method's first argument
    r4Resource,     \* second argument of hydrateResource as received by the callee
    options,        \* additionalHeaders / requestOptions argument
    work,           \* the object literal hydrateResource is building
    resolved,       \* session identifiers resolved by getIDfromObject in this execution
    netCalls,       \* invocations of the session primitives in this execution
    status,         \* "idle" | "pending" | "fulfilled" | "rejected"
    retval,         \* value returned / promise fulfilled with
    error           \* value thrown / promise rejected with (message segments)

vars == <<clientOrToken, clientClass, session, op, pc, arg, r4Resource, options,
          work, resolved, netCalls, status, retval, error>>

(***************************************************************************)
(* Bounds                                                                  *)
(***************************************************************************)
\* number of fragments a server URL is assembled from
MaxParts == 2

Undefined == "undefined"
NoError == <<>>

(***************************************************************************)
(* Strings that are searched are sequences of characters.                  *)
(***************************************************************************)
S_cerner == <<"c","e","r","n","e","r">>
S_smarthealthit == <<"s","m","a","r","t","h","e","a","l","t","h","i","t">>
S_epic == <<"e","p","i","c">>
S_ecw == <<"e","c","w">>
S_athenahealth_com == <<".","a","t","h","e","n","a","h","e","a","l","t","h",".","c","o","m">>
S_platform_athena == <<"p","l","a","t","f","o","r","m">> \o S_athenahealth_com
S_fhirapi_athena == <<"f","h","i","r","a","p","i">> \o S_athenahealth_com

\* String.prototype.includes
Includes(s, sub) ==
    \E i \in 0..(Len(s) - Len(sub)) : SubSeq(s, i + 1, i + Len(sub)) = sub

\* faulty variant: the epic entry moved in front of the cerner entry
EMR_MAPPING_EpicFirst ==
    << [substring |-> S_epic,            emr |-> "EPIC"],
       [substring |-> S_cerner,          emr |-> "CERNER"],
       [substring |-> S_smarthealthit,   emr |-> "SMART"],
       [substring |-> S_ecw,             emr |-> "ECW"],
       [substring |-> S_platform_athena, emr |-> "ATHENA"],
       [substring |-> S_fhirapi_athena,  emr |-> "ATHENAPRACTICE"] >>

EMR_MAPPING ==
    << [substring |-> S_cerner,          emr |-> "CERNER"],
       [substring |-> S_smarthealthit,   emr |-> "SMART"],
       [substring |-> S_epic,            emr |-> "EPIC"],
       [substring |-> S_ecw,             emr |-> "ECW"],
       [substring |-> S_platform_athena, emr |-> "ATHENA"],
       [substring |-> S_fhirapi_athena,  emr |-> "ATHENAPRACTICE"] >>

\* for (const { substring, emr } of EMR_MAPPING) if (serverUrl.includes(substring)) return emr
RECURSIVE MappingLoop(_, _)
MappingLoop(serverUrl, i) ==
    IF i > Len(EMR_MAPPING) THEN "NONE"
    ELSE IF Includes(serverUrl, EMR_MAPPING[i].substring) THEN EMR_MAPPING[i].emr
    ELSE MappingLoop(serverUrl, i + 1)

TypeErrorServerUrl == <<"TypeError: ", "Cannot read properties of undefined (reading 'serverUrl')">>

\* getEMRType(clientOrToken): [thrown, value]
\* isClient reads input.state.serverUrl, which throws when input has no state.
getEMRType(input) ==
    IF ~input.hasState
    THEN [thrown |-> TypeErrorServerUrl, value |-> Undefined]
    ELSE IF input.hasServerUrl
         THEN [thrown |-> NoError, value |-> MappingLoop(input.serverUrl, 1)]
         ELSE IF input.epicEci
              THEN [thrown |-> NoError, value |-> "EPIC"]
              ELSE [thrown |-> NoError, value |-> "NONE"]

(***************************************************************************)
(* Inputs of getEMRType                                                    *)
(***************************************************************************)
UrlParts == { S_cerner, S_smarthealthit, S_epic, S_ecw, S_platform_athena,
              S_fhirapi_athena, <<"x">>, <<"e","p">>, <<"i","c">> }

RECURSIVE Concat(_)
Concat(parts) == IF parts = <<>> THEN <<>> ELSE Head(parts) \o Concat(Tail(parts))

ServerUrls == { Concat(ps) : ps \in UNION { [1..n -> UrlParts] : n \in 0..MaxParts } }

SessionHandles ==
    [hasState : {TRUE}, hasServerUrl : {TRUE}, serverUrl : ServerUrls, epicEci : {FALSE}]

\* objects without state.serverUrl: JWTs (no state at all) and objects whose state lacks serverUrl
TokenLikes ==
    [hasState : BOOLEAN, hasServerUrl : {FALSE}, serverUrl : {<<>>}, epicEci : BOOLEAN]

NoInput == [hasState |-> FALSE, hasServerUrl |-> FALSE, serverUrl |-> <<>>, epicEci |-> FALSE]

(***************************************************************************)
(* Endpoint registry                                                       *)
(***************************************************************************)
EMR == {"EPIC", "CERNER", "ECW", "ATHENA", "ATHENAPRACTICE", "SMART", "NONE"}

CERNER_AUTHORIZE_ENDPOINT ==
    "https://authorization.cerner.com/tenants/ec2458f2-1e24-41c8-b71b-0e701af7583d/protocols/oauth2/profiles/smart-v1/personas/provider/authorize"
CERNER_TOKEN_ENDPOINT ==
    "https://authorization.cerner.com/tenants/ec2458f2-1e24-41c8-b71b-0e701af7583d/protocols/oauth2/profiles/smart-v1/token"
CERNER_R4_ENDPOINT ==
    "https://fhir-ehr-code.cerner.com/r4/ec2458f2-1e24-41c8-b71b-0e701af7583d"

\* new URL(s) for an absolute URL string already in serialised form
NewURL(s) == [href |-> s]

\* faulty variant: the R4 endpoint is tested before the token endpoint
constructEndpoints_R4First(tokenEP, r4EP, authorizeEP) ==
    IF r4EP = Undefined
    THEN [thrown |-> <<"Error: ", "R4 Endpoint not defined">>, value |-> Undefined]
    ELSE IF tokenEP = Undefined
    THEN [thrown |-> <<"Error: ", "Token Endpoint not defined">>, value |-> Undefined]
    ELSE IF authorizeEP = Undefined
    THEN [thrown |-> <<"Error: ", "Auth Endpoint not defined">>, value |-> Undefined]
    ELSE [thrown |-> NoError,
          value  |-> [token |-> NewURL(tokenEP), r4 |-> NewURL(r4EP), auth |-> NewURL(authorizeEP)]]

\* BaseClient.constructEndpoints
constructEndpoints(tokenEP, r4EP, authorizeEP) ==
    IF tokenEP = Undefined
    THEN [thrown |-> <<"Error: ", "Token Endpoint not defined">>, value |-> Undefined]
    ELSE IF r4EP = Undefined
    THEN [thrown |-> <<"Error: ", "R4 Endpoint not defined">>, value |-> Undefined]
    ELSE IF authorizeEP = Undefined
    THEN [thrown |-> <<"Error: ", "Auth Endpoint not defined">>, value |-> Undefined]
    ELSE [thrown |-> NoError,
          value  |-> [token |-> NewURL(tokenEP), r4 |-> NewURL(r4EP), auth |-> NewURL(authorizeEP)]]

\* static CernerClient.getEndpoints
CernerClient_getEndpoints ==
    constructEndpoints(CERNER_TOKEN_ENDPOINT, CERNER_R4_ENDPOINT, CERNER_AUTHORIZE_ENDPOINT)

\* static endpoint strings of the vendor classes whose files are not part of the sources
StaticEndpoint(cls, which) == cls \o "." \o which

\* static getEndpoints of EpicClient, ECWClient, AthenaClient, AthenaPracticeClient
OtherClient_getEndpoints(cls) ==
    constructEndpoints(StaticEndpoint(cls, "TOKEN_ENDPOINT"),
                       StaticEndpoint(cls, "R4_ENDPOINT"),
                       StaticEndpoint(cls, "AUTHORIZE_ENDPOINT"))

EndpointsNotFound(emrType) == <<"Error: ", "Endpoints not found for EMR type: ", emrType>>

\* faulty variant: SMART and NONE fall through to the Epic endpoints
getEndpointsForEmr_DefaultEpic(emrType) ==
    CASE emrType = "CERNER"         -> CernerClient_getEndpoints
      [] emrType = "ECW"            -> OtherClient_getEndpoints("ECWClient")
      [] emrType = "ATHENAPRACTICE" -> OtherClient_getEndpoints("AthenaPracticeClient")
      [] emrType = "ATHENA"         -> OtherClient_getEndpoints("AthenaClient")
      [] OTHER                      -> OtherClient_getEndpoints("EpicClient")

\* getEndpointsForEmr(emrType)
getEndpointsForEmr(emrType) ==
    CASE emrType = "EPIC"           -> OtherClient_getEndpoints("EpicClient")
      [] emrType = "CERNER"         -> CernerClient_getEndpoints
      [] emrType = "ECW"            -> OtherClient_getEndpoints("ECWClient")
      [] emrType = "ATHENAPRACTICE" -> OtherClient_getEndpoints("AthenaPracticeClient")
      [] emrType = "ATHENA"         -> OtherClient_getEndpoints("AthenaClient")
      [] OTHER                      -> [thrown |-> EndpointsNotFound(emrType), value |-> Undefined]

(***************************************************************************)
(* Resources: objects are functions from their own keys to values.         *)
(***************************************************************************)
EmptyObject == <<>>

\* { ...a, ...b }
Spread(a, b) ==
    [k \in (DOMAIN a) \cup (DOMAIN b) |-> IF k \in DOMAIN b THEN b[k] ELSE a[k]]

OptionalFields == {"subject", "encounter", "context", "period", "author"}

\* values a caller puts in the fields of a resource it submits
CallerValue(k) ==
    CASE k = "resourceType" -> "DocumentReference"
      [] k = "subject"      -> [reference |-> "Patient/own"]
      [] k = "encounter"    -> << [reference |-> "Encounter/own"] >>
      [] k = "context"      -> [related |-> << [reference |-> "DocumentReference/own"] >>]
      [] k = "period"       -> [start |-> "t0", end |-> "t0"]
      [] k = "author"       -> << [reference |-> "Practitioner/own"] >>

CallerResources ==
    { [k \in S \cup {"resourceType"} |-> CallerValue(k)] : S \in SUBSET OptionalFields }

MalformedResource == <<"Error: ", "resource has no resourceType">>

\* Transformer.toFhirClientType: field-preserving, needs the resourceType discriminant
toFhirClientType(r) ==
    IF "resourceType" \notin DOMAIN r
    THEN [thrown |-> MalformedResource, value |-> EmptyObject]
    ELSE [thrown |-> NoError, value |-> [k \in DOMAIN r |-> r[k]]]

\* Transformer.toR4FhirType
toR4FhirType(r) ==
    IF "resourceType" \notin DOMAIN r
    THEN [thrown |-> MalformedResource, value |-> EmptyObject]
    ELSE [thrown |-> NoError, value |-> [k \in DOMAIN r |-> r[k]]]

(***************************************************************************)
(* Session handle                                                          *)
(***************************************************************************)
EmptyId == ""
Sessions == [patient : {EmptyId, "p1"}, encounter : {EmptyId, "e1"}, user : {EmptyId, "u1"}]
ClientClasses == {"BaseClient", "CernerClient"}
Times == {"t1", "t2"}

IdNotFound == <<"Error: ", "id not found">>

\* BaseClient.getIDfromObject: [thrown, value]
getIDfromObject(id) ==
    IF id = EmptyId
    THEN [thrown |-> IdNotFound, value |-> Undefined]
    ELSE [thrown |-> NoError, value |-> id]

\* body of BaseClient.createPatientSubject after the id is resolved
createPatientSubject(patientID) ==
    [s \in {"subject"} |-> [reference |-> "Patient/" \o patientID]]

\* BaseClient.createEncounterReference / createEncounterReferenceArray after the id is resolved
createEncounterReferenceArray(encounterID) ==
    << [reference |-> "Encounter/" \o encounterID] >>

\* BaseClient.createPeriod
createPeriod(start) == [start |-> start, end |-> start]

\* faulty variant: the encounter reference array is put on the resource itself
createContext_TopLevel(encounterID, currentDateString) ==
    [c \in {"encounter"} |-> createEncounterReferenceArray(encounterID)]

\* body of BaseClient.createContext after the id is resolved
createContext(encounterID, currentDateString) ==
    [c \in {"context"} |->
        [encounter |-> createEncounterReferenceArray(encounterID),
         period    |-> createPeriod(currentDateString)]]

\* body of BaseClient.createReferenceArrayAuthor after the id is resolved
createReferenceArrayAuthor(userID) ==
    [a \in {"author"} |-> << [reference |-> "Practitioner/" \o userID] >>]

(***************************************************************************)
(* Method executions                                                       *)
(***************************************************************************)
NoResource == [defined |-> FALSE, value |-> EmptyObject]
NoOptions == [defined |-> FALSE, headers |-> EmptyObject]
EmptyWork == [resource |-> EmptyObject, subject |-> EmptyObject, base |-> EmptyObject]

\* headers a caller may supply
CallerHeaders == ("X-Custom" :> "1") @@ ("Accept" :> "text/plain")
CallerHeaderSets == { [k \in S |-> CallerHeaders[k]] : S \in SUBSET DOMAIN CallerHeaders }
CreateOptions == {NoOptions, [defined |-> TRUE, headers |-> [k \in {"X-Custom"} |-> CallerHeaders[k]]]}
RequestOptions == {NoOptions} \cup [defined : {TRUE}, headers : CallerHeaderSets]

\* the execution state a step reads and writes
Exec == [pc |-> pc, work |-> work, resolved |-> resolved, netCalls |-> netCalls,
         status |-> status, retval |-> retval, error |-> error]

Become(e) ==
    /\ pc' = e.pc
    /\ work' = e.work
    /\ resolved' = e.resolved
    /\ netCalls' = e.netCalls
    /\ status' = e.status
    /\ retval' = e.retval
    /\ error' = e.error

\* the method's promise is rejected with err
Rejected(e, err) == [e EXCEPT !.pc = "done", !.status = "rejected", !.error = err]

\* the method's promise is fulfilled with v
Fulfilled(e, v) == [e EXCEPT !.pc = "done", !.status = "fulfilled", !.retval = v]

\* this.fhirClientDefault.create(hydratedResource, { ...(additionalHeaders ? additionalHeaders : {}) })
SessionCreateCall(hydratedResource) ==
    [prim |-> "create", resource |-> hydratedResource,
     options |-> IF options.defined THEN options.headers ELSE EmptyObject,
     settled |-> "pending", reason |-> NoError, response |-> EmptyObject]

\* hydrateResource returns h to its caller: to the method's caller, or to create,
\* which passes it on to the session's create primitive
HydrateReturns(e, h) ==
    IF op = "create"
    THEN [e EXCEPT !.pc = "awaiting", !.netCalls = Append(@, SessionCreateCall(h))]
    ELSE Fulfilled(e, h)

\* an operation can start when none is in flight
CanStart == status # "pending"

Started(name, a, r4, opts, w, firstPc) ==
    /\ op' = name
    /\ arg' = a
    /\ r4Resource' = r4
    /\ options' = opts
    /\ Become([pc |-> firstPc, work |-> w, resolved |-> {}, netCalls |-> <<>>,
               status |-> "pending", retval |-> Undefined, error |-> NoError])
    /\ UNCHANGED <<clientOrToken, clientClass, session>>

\* caller invokes client.hydrateResource(fhirClientResource, r4Resource);
\* BaseClient.hydrateResource declares the first parameter only
CallHydrateResource(r) ==
    /\ CanStart
    /\ Started("hydrateResource", r,
               IF clientClass = "CernerClient" THEN [defined |-> TRUE, value |-> r] ELSE NoResource,
               NoOptions,
               [EmptyWork EXCEPT !.resource = toFhirClientType(r).value],
               "subject")

\* create: transformedResource = Transformer.toFhirClientType(resource);
\* this.hydrateResource(transformedResource) -- one argument
CallCreate(r, additionalHeaders) ==
    /\ CanStart
    /\ Started("create", r, NoResource, additionalHeaders,
               [EmptyWork EXCEPT !.resource = toFhirClientType(r).value],
               "subject")

\* ...("subject" in resource ? {} : await this.createPatientSubject())
HydrateSubject ==
    /\ status = "pending"
    /\ pc = "subject"
    /\ IF "subject" \in DOMAIN work.resource
       THEN Become([Exec EXCEPT !.pc = "context"])
       ELSE LET id == getIDfromObject(session.patient)
                e  == [Exec EXCEPT !.resolved = @ \cup {"patient"}]
            IN  IF id.thrown # NoError
                THEN Become(Rejected(e, id.thrown))
                ELSE Become([e EXCEPT !.pc = "context",
                                      !.work.subject = createPatientSubject(id.value)])
    /\ UNCHANGED <<clientOrToken, clientClass, session, op, arg, r4Resource, options>>

\* ...("encounter" in resource ? {} : await this.createContext()), then the object
\* literal { ...resource, ...subject, ...context } is complete
HydrateContext(currentDateString) ==
    /\ status = "pending"
    /\ pc = "context"
    /\ LET AfterBase(e, base) ==
               IF clientClass = "CernerClient"
               THEN [e EXCEPT !.pc = "author", !.work.base = base]
               ELSE HydrateReturns([e EXCEPT !.work.base = base], base)
       IN  IF "encounter" \in DOMAIN work.resource
           THEN Become(AfterBase(Exec, Spread(Spread(work.resource, work.subject), EmptyObject)))
           ELSE LET id == getIDfromObject(session.encounter)
                    e  == [Exec EXCEPT !.resolved = @ \cup {"encounter"}]
                IN  IF id.thrown # NoError
                    THEN Become(Rejected(e, id.thrown))
                    ELSE Become(AfterBase(e,
                            Spread(Spread(work.resource, work.subject),
                                   createContext(id.value, currentDateString))))
    /\ UNCHANGED <<clientOrToken, clientClass, session, op, arg, r4Resource, options>>

TypeErrorIn == <<"TypeError: ", "Cannot use 'in' operator to search for 'author' in undefined">>

\* CernerClient.hydrateResource:
\* { ...(await super.hydrateResource(..)), ...("author" in r4Resource ? {} : await super.createReferenceArrayAuthor()) }
HydrateAuthor ==
    /\ status = "pending"
    /\ pc = "author"
    /\ IF ~r4Resource.defined
       THEN Become(Rejected(Exec, TypeErrorIn))
       ELSE IF "author" \in DOMAIN r4Resource.value
       THEN Become(HydrateReturns(Exec, Spread(work.base, EmptyObject)))
       ELSE LET id == getIDfromObject(session.user)
                e  == [Exec EXCEPT !.resolved = @ \cup {"user"}]
            IN  IF id.thrown # NoError
                THEN Become(Rejected(e, id.thrown))
                ELSE Become(HydrateReturns(e, Spread(work.base, createReferenceArrayAuthor(id.value))))
    /\ UNCHANGED <<clientOrToken, clientClass, session, op, arg, r4Resource, options>>

(***************************************************************************)
(* create: the promise chain on the session's create primitive             *)
(***************************************************************************)
\* reasons the session's create primitive rejects with
TransportReasons == { <<"Error: ", "Network request failed">>, <<"Error: ", "403 Forbidden">> }

\* what the server answers to a successful submission
ServerResource(submitted) == Spread(submitted, [k \in {"id"} |-> "new1"])
WithoutResourceType(r) == [k \in (DOMAIN r) \ {"resourceType"} |-> r[k]]

SessionCreateResponses(submitted) ==
    { [ok |-> FALSE, reason |-> rs, resource |-> EmptyObject] : rs \in TransportReasons }
    \cup { [ok |-> TRUE, reason |-> NoError, resource |-> ServerResource(submitted)],
           [ok |-> TRUE, reason |-> NoError, resource |-> WithoutResourceType(ServerResource(submitted))] }

NoResourceType == <<"Error: ", "Resource ", "[object Object]", ", must have a resource type.">>

\* .then((resource) => { if (!resource.resourceType) throw ...; return resource })
createThen(resource) ==
    IF "resourceType" \notin DOMAIN resource
    THEN [thrown |-> NoResourceType, value |-> EmptyObject]
    ELSE [thrown |-> NoError, value |-> resource]

\* faulty variant: the handler logs the reason and resolves with an empty resource
createCatch_Swallow(reason) == [thrown |-> NoError, value |-> [k \in {"resourceType"} |-> "OperationOutcome"]]

\* .catch((reason) => { throw new Error("It failed with:" + reason) })
createCatch(reason) == [thrown |-> <<"Error: ", "It failed with:">> \o reason, value |-> EmptyObject]

\* the chain create(...).then(...).catch(...): catch also receives what then throws
createChain(response) ==
    IF response.ok
    THEN LET t == createThen(response.resource)
         IN  IF t.thrown # NoError THEN createCatch(t.thrown) ELSE t
    ELSE createCatch(response.reason)

\* the session's create primitive settles; create resumes after its await
SessionCreateSettles ==
    /\ status = "pending"
    /\ op = "create"
    /\ pc = "awaiting"
    /\ \E response \in SessionCreateResponses(netCalls[Len(netCalls)].resource) :
          LET e == [Exec EXCEPT !.netCalls[Len(netCalls)].settled =
                                      IF response.ok THEN "fulfilled" ELSE "rejected",
                                !.netCalls[Len(netCalls)].reason = response.reason,
                                !.netCalls[Len(netCalls)].response = response.resource]
              resultResource == createChain(response)
          IN  IF resultResource.thrown # NoError
              THEN Become(Rejected(e, resultResource.thrown))
              ELSE LET resultAsR4 == toR4FhirType(resultResource.value)
                   IN  IF resultAsR4.thrown # NoError
                       THEN Become(Rejected(e, resultAsR4.thrown))
                       ELSE Become(Fulfilled(e, resultAsR4.value))
    /\ UNCHANGED <<clientOrToken, clientClass, session, op, arg, r4Resource, options>>

(***************************************************************************)
(* requestResource                                                         *)
(***************************************************************************)
ResourceIDs == {"Patient/p1", "Observation/o1"}

\* CernerClient.cernerRequestHeaders
cernerRequestHeaders == [k \in {"Accept"} |-> "application/fhir+json"]

\* BaseClient.requestResource(resourceID, requestOptions): the argument of fhirClientDefault.request
BaseClient_requestResource(resourceID, requestOptions) ==
    [prim |-> "request", url |-> resourceID,
     hasHeaders |-> requestOptions.defined,
     headers |-> IF requestOptions.defined THEN requestOptions.headers ELSE EmptyObject]

\* CernerClient.requestResource(resourceID): declares no second parameter
CernerClient_requestResource(resourceID, requestOptions) ==
    BaseClient_requestResource(resourceID, [defined |-> TRUE, headers |-> cernerRequestHeaders])

RequestedResource(resourceID) == ("resourceType" :> "Basic") @@ ("id" :> resourceID)

\* caller invokes client.requestResource(resourceID, requestOptions)
RequestResource(resourceID, requestOptions) ==
    /\ CanStart
    /\ op' = "requestResource"
    /\ arg' = resourceID
    /\ options' = requestOptions
    /\ r4Resource' = NoResource
    /\ LET call == IF clientClass = "CernerClient"
                   THEN CernerClient_requestResource(resourceID, requestOptions)
                   ELSE BaseClient_requestResource(resourceID, requestOptions)
       IN  Become([pc |-> "done", work |-> EmptyWork, resolved |-> {}, netCalls |-> <<call>>,
                   status |-> "fulfilled", retval |-> RequestedResource(resourceID),
                   error |-> NoError])
    /\ UNCHANGED <<clientOrToken, clientClass, session>>

(***************************************************************************)
(* getPractitionerRead / getPatientRead / getEncounterRead                 *)
(***************************************************************************)
\* resource types a server may answer a read with
ReadTypes == {"Practitioner", "Patient", "Encounter", "OperationOutcome"}

ReadResource(t) == ("resourceType" :> t) @@ ("id" :> "r1")

NotAPractitioner == <<"Error: ", "User is Not a Practitioner">>

\* BaseClient.getPractitionerRead after user.read() resolved to user
getPractitionerRead(user) ==
    IF user["resourceType"] = "Practitioner"
    THEN toR4FhirType(user)
    ELSE [thrown |-> NotAPractitioner, value |-> EmptyObject]

\* BaseClient.getPatientRead after patient.read() resolved to patient
getPatientRead(patient) == toR4FhirType(patient)

\* BaseClient.getEncounterRead after encounter.read() resolved to encounter
getEncounterRead(encounter) == toR4FhirType(encounter)

ReadDone(name, prim, entity, result) ==
    /\ CanStart
    /\ op' = name
    /\ arg' = EmptyObject
    /\ options' = NoOptions
    /\ r4Resource' = NoResource
    /\ LET e == [pc |-> "done", work |-> EmptyWork, resolved |-> {},
                 netCalls |-> << [prim |-> prim, result |-> entity] >>,
                 status |-> "pending", retval |-> Undefined, error |-> NoError]
       IN  IF result.thrown # NoError
           THEN Become(Rejected(e, result.thrown))
           ELSE Become(Fulfilled(e, result.value))
    /\ UNCHANGED <<clientOrToken, clientClass, session>>

GetPractitionerRead(t) ==
    ReadDone("getPractitionerRead", "user.read", ReadResource(t), getPractitionerRead(ReadResource(t)))

GetPatientRead(t) ==
    ReadDone("getPatientRead", "patient.read", ReadResource(t), getPatientRead(ReadResource(t)))

GetEncounterRead(t) ==
    ReadDone("getEncounterRead", "encounter.read", ReadResource(t), getEncounterRead(ReadResource(t)))

(***************************************************************************)
(* getEndpointsForEmr and getEMRType as operations                         *)
(***************************************************************************)
Completed(name, a, result) ==
    /\ op' = name
    /\ arg' = a
    /\ options' = NoOptions
    /\ r4Resource' = NoResource
    /\ LET e == [pc |-> "done", work |-> EmptyWork, resolved |-> {}, netCalls |-> <<>>,
                 status |-> "pending", retval |-> Undefined, error |-> NoError]
       IN  IF result.thrown # NoError
           THEN Become(Rejected(e, result.thrown))
           ELSE Become(Fulfilled(e, result.value))

GetEndpointsForEmr(emrType) ==
    /\ CanStart
    /\ Completed("getEndpointsForEmr", emrType, getEndpointsForEmr(emrType))
    /\ UNCHANGED <<clientOrToken, clientClass, session>>

GetEMRType ==
    /\ status = "idle"
    /\ Completed("getEMRType", EmptyObject, getEMRType(clientOrToken))
    /\ UNCHANGED <<clientOrToken, clientClass, session>>

(***************************************************************************)
(* ClientFactory                                                           *)
(***************************************************************************)
\* ClientFactory.prototype.getEMRType(client)
ClientFactory_getEMRType(client) ==
    IF Includes(client.serverUrl, S_cerner) THEN "CERNER"
    ELSE IF Includes(client.serverUrl, S_smarthealthit) THEN "SMART"
    ELSE IF Includes(client.serverUrl, S_epic) THEN "EPIC"
    ELSE "NONE"

\* the switch of ClientFactory.prototype.createEMRClient: class of the client constructed
createEMRClient(emrType) ==
    CASE emrType = "EPIC"   -> "EpicClient"
      [] emrType = "CERNER" -> "CernerClient"
      [] OTHER              -> "EpicClient"

\* createEMRClient on the session handle FHIR.oauth2.ready() resolved to
CreateEMRClient ==
    /\ status = "idle"
    /\ clientOrToken.hasState
    /\ clientOrToken.hasServerUrl
    /\ LET emrType == ClientFactory_getEMRType(clientOrToken)
       IN  Completed("createEMRClient", EmptyObject,
                     [thrown |-> NoError,
                      value  |-> [emrType |-> emrType, client |-> createEMRClient(emrType)]])
    /\ UNCHANGED <<clientOrToken, clientClass, session>>

(***************************************************************************)
(* Specifications                                                          *)
(***************************************************************************)
Quiescent ==
    /\ op = "none"
    /\ pc = "idle"
    /\ arg = EmptyObject
    /\ r4Resource = NoResource
    /\ options = NoOptions
    /\ work = EmptyWork
    /\ resolved = {}
    /\ netCalls = <<>>
    /\ status = "idle"
    /\ retval = Undefined
    /\ error = NoError

\* a client of either class bound to a session handle
Init ==
    /\ clientOrToken = NoInput
    /\ clientClass \in ClientClasses
    /\ session \in Sessions
    /\ Quiescent

Next ==
    \/ \E r \in CallerResources : CallHydrateResource(r)
    \/ \E r \in CallerResources, h \in CreateOptions : CallCreate(r, h)
    \/ HydrateSubject
    \/ \E t \in Times : HydrateContext(t)
    \/ HydrateAuthor
    \/ SessionCreateSettles
    \/ \E id \in ResourceIDs, o \in RequestOptions : RequestResource(id, o)
    \/ \E t \in ReadTypes : GetPractitionerRead(t)
    \/ \E t \in ReadTypes : GetPatientRead(t)
    \/ \E t \in ReadTypes : GetEncounterRead(t)
    \/ \E v \in EMR : GetEndpointsForEmr(v)

Spec == Init /\ [][Next]_vars

\* getEMRType applied to one input
InitVendor ==
    /\ clientOrToken \in SessionHandles \cup TokenLikes
    /\ clientClass = "BaseClient"
    /\ session = [patient |-> EmptyId, encounter |-> EmptyId, user |-> EmptyId]
    /\ Quiescent

NextVendor ==
    \/ GetEMRType
    \/ CreateEMRClient

SpecVendor == InitVendor /\ [][NextVendor]_vars

\* values of the static TOKEN_ENDPOINT / R4_ENDPOINT / AUTHORIZE_ENDPOINT of a client
\* class: string | undefined
EndpointStrings ==
    { Undefined, CERNER_TOKEN_ENDPOINT, CERNER_R4_ENDPOINT, CERNER_AUTHORIZE_ENDPOINT,
      "https://fhir.example.org/r4" }

EndpointArgs == EndpointStrings \X EndpointStrings \X EndpointStrings

\* a static getEndpoints calls BaseClient.constructEndpoints(tokenEP, r4EP, authorizeEP)
ConstructEndpoints ==
    /\ status = "idle"
    /\ op' = "constructEndpoints"
    /\ options' = NoOptions
    /\ r4Resource' = NoResource
    /\ LET result == constructEndpoints(arg[1], arg[2], arg[3])
           e == [pc |-> "done", work |-> EmptyWork, resolved |-> {}, netCalls |-> <<>>,
                 status |-> "pending", retval |-> Undefined, error |-> NoError]
       IN  IF result.thrown # NoError
           THEN Become(Rejected(e, result.thrown))
           ELSE Become(Fulfilled(e, result.value))
    /\ UNCHANGED <<clientOrToken, clientClass, session, arg>>

\* constructEndpoints applied to one triple of arguments
InitEndpoints ==
    /\ clientOrToken = NoInput
    /\ clientClass = "BaseClient"
    /\ session = [patient |-> EmptyId, encounter |-> EmptyId, user |-> EmptyId]
    /\ op = "none"
    /\ pc = "idle"
    /\ arg \in EndpointArgs
    /\ r4Resource = NoResource
    /\ options = NoOptions
    /\ work = EmptyWork
    /\ resolved = {}
    /\ netCalls = <<>>
    /\ status = "idle"
    /\ retval = Undefined
    /\ error = NoError

NextEndpoints == ConstructEndpoints

SpecEndpoints == InitEndpoints /\ [][NextEndpoints]_vars

(***************************************************************************)
(* Properties                                                              *)
(***************************************************************************)

C2_TokenLike ==
    (op = "getEMRType" /\ ~clientOrToken.hasState /\ ~clientOrToken.hasServerUrl) =>
        /\ status = "fulfilled"
        /\ retval = IF clientOrToken.epicEci THEN "EPIC" ELSE "NONE"

C4_NeverOverwrites ==
    (op = "hydrateResource" /\ status = "fulfilled") =>
        \A k \in DOMAIN arg : k \in DOMAIN retval /\ retval[k] = arg[k]

C6_MissingIdFailsFirst ==
    LET needed == (IF "subject" \in DOMAIN arg THEN {} ELSE {"patient"})
                  \cup (IF "encounter" \in DOMAIN arg THEN {} ELSE {"encounter"})
                  \cup (IF clientClass = "CernerClient" /\ "author" \notin DOMAIN arg
                        THEN {"user"} ELSE {})
    IN  (op = "create" /\ \E i \in needed : session[i] = EmptyId) =>
            /\ netCalls = <<>>
            /\ pc = "done" => (status = "rejected" /\ error = IdNotFound)

\* C7: when the session's create primitive rejects, create is rejected with
\* "It failed with:" followed by the original reason, returns no resource, and
\* the primitive was invoked once only.
C7_TransportFailureWrapped ==
    (op = "create" /\ pc = "done" /\ netCalls # <<>>
        /\ netCalls[Len(netCalls)].settled = "rejected") =>
        /\ status = "rejected"
        /\ error = <<"Error: ", "It failed with:">> \o netCalls[Len(netCalls)].reason
        /\ Len(netCalls) = 1

\* create ended after the session's create primitive rejected with a network failure
C7_Witness ==
    /\ op = "create"
    /\ pc = "done"
    /\ Len(netCalls) = 1
    /\ netCalls[1].settled = "rejected"
    /\ netCalls[1].reason = <<"Error: ", "Network request failed">>
    /\ status = "rejected"

\* C8: when the session's create primitive resolves with a response that has no
\* resourceType, create fails with the invalid-response error, which is not the
\* "It failed with:" error of transport failures, and returns no resource.
C8_InvalidResponseDistinct ==
    (op = "create" /\ pc = "done" /\ netCalls # <<>>
        /\ netCalls[Len(netCalls)].settled = "fulfilled"
        /\ "resourceType" \notin DOMAIN netCalls[Len(netCalls)].response) =>
        /\ status = "rejected"
        /\ error = NoResourceType
        /\ error[2] # "It failed with:"

\* C9: requestResource passes to the session's request primitive the vendor's
\* default headers and every caller-supplied header; on CernerClient the request
\* carries Accept: application/fhir+json and the caller's headers as well.
C9_HeadersMerged ==
    (op = "requestResource") =>
        LET sent     == netCalls[1].headers
            defaults == IF clientClass = "CernerClient" THEN cernerRequestHeaders ELSE EmptyObject
            caller   == IF options.defined THEN options.headers ELSE EmptyObject
        IN  /\ \A k \in DOMAIN defaults : k \in DOMAIN sent /\ sent[k] = defaults[k]
            /\ \A k \in DOMAIN caller :
                   k \in DOMAIN sent /\ (k \notin DOMAIN defaults => sent[k] = caller[k])

\* C10: getPractitionerRead, getPatientRead and getEncounterRead return an entity
\* only when the entity read from the session has resourceType Practitioner,
\* Patient or Encounter respectively, and fail for any other resourceType.
C10_ReadsChecked ==
    (op \in {"getPractitionerRead", "getPatientRead", "getEncounterRead"}) =>
        LET expected == CASE op = "getPractitionerRead" -> "Practitioner"
                          [] op = "getPatientRead" -> "Patient"
                          [] op = "getEncounterRead" -> "Encounter"
            actual   == netCalls[1].result["resourceType"]
        IN  /\ status = "fulfilled" => actual = expected
            /\ actual # expected => status = "rejected"

\* C11: constructEndpoints returns a {token, r4, auth} triple only when all three
\* arguments are defined; otherwise it throws, having built no URL, an error
\* naming the first undefined argument in the order token, R4, auth.
C11_FirstMissingNamed ==
    (op = "constructEndpoints") =>
        LET missing == { i \in 1..3 : arg[i] = "undefined" }
            names   == <<"Token", "R4", "Auth">>
        IN  IF missing = {}
            THEN /\ status = "fulfilled"
                 /\ retval = [token |-> [href |-> arg[1]], r4 |-> [href |-> arg[2]],
                              auth |-> [href |-> arg[3]]]
            ELSE /\ status = "rejected"
                 /\ retval = "undefined"
                 /\ error = <<"Error: ",
                              names[CHOOSE i \in missing : \A j \in missing : i <= j]
                                  \o " Endpoint not defined">>

\* the token endpoint is defined, the R4 and the authorize endpoint are not: the error names R4
C11_Witness ==
    /\ op = "constructEndpoints"
    /\ arg[1] # "undefined"
    /\ arg[2] = "undefined"
    /\ arg[3] = "undefined"
    /\ status = "rejected"
    /\ error = <<"Error: ", "R4 Endpoint not defined">>

\* C12: for every ready session handle the factory's own vendor tag equals the
\* tag getEMRType of utils gives the same server URL, a CERNER tag yields a
\* CernerClient, an EPIC tag an EpicClient, and an ECW, ATHENA or ATHENAPRACTICE
\* tag is never served by another vendor's client.
C12_FactoryMatchesResolver ==
    (op = "createEMRClient") =>
        LET tag == getEMRType(clientOrToken).value
        IN  /\ status = "fulfilled"
            /\ retval.emrType = tag
            /\ tag = "CERNER" => retval.client = "CernerClient"
            /\ tag = "EPIC" => retval.client = "EpicClient"
            /\ tag \in {"ECW", "ATHENA", "ATHENAPRACTICE"} =>
                   retval.client \notin {"EpicClient", "CernerClient"}

\* C13: on a CernerClient, create of a resource with no author, with patient,
\* encounter and user identifiers all resolvable, reaches the session's create
\* primitive with author = [Practitioner/<user id>] on top of the base context;
\* a resource that declares author is submitted with that author and the user
\* identifier is not resolved.
C13_CernerCreateAddsAuthor ==
    (clientClass = "CernerClient" /\ op = "create" /\ pc = "done"
        /\ \A i \in {"patient", "encounter", "user"} : session[i] # EmptyId) =>
        /\ netCalls # <<>>
        /\ "author" \notin DOMAIN arg =>
              /\ netCalls[1].resource["author"] = << [reference |-> "Practitioner/" \o session.user] >>
              /\ "subject" \in DOMAIN netCalls[1].resource
              /\ "user" \in resolved
        /\ "author" \in DOMAIN arg =>
              /\ netCalls[1].resource["author"] = arg["author"]
              /\ "user" \notin resolved
====
